---- MODULE Spec2Model ----
(***************************************************************************)
(* Model of src/app.py: the request pipeline `run` that run_streamlit      *)
(* starts on a thread of its own for every GET /app: ticker metadata,      *)
(* price download, the two price charts, the 70/30 split, the min-max      *)
(* scaler, the sliding windows, the prediction, the metrics and the three  *)
(* result charts, together with the process-wide pyplot state the plotting *)
(* calls share.                                                            *)
(*                                                                         *)
(* Prices are integers; every value the code derives from them (scaled     *)
(* values, means, ratios) is an exact rational <<n, d>> in lowest terms    *)
(* with d > 0.  Floating-point rounding is not modelled.                   *)
(***************************************************************************)
EXTENDS Integers, Sequences, FiniteSets, TLC

\* The literal 100 of lines 129, 142, 148 and 149 (guard, tail, window
\* length), scaled down so that every series of the model can be enumerated.
WINDOW_SIZE == 2
\* Longest price series a download returns.
MaxLen == 6
\* Requests served (threads started) in the concurrent specification.
MaxRuns == 2

Runs == 1..MaxRuns
\* Closing prices: positive.
Prices == 1..3

(***************************************************************************)
(* Exact rational arithmetic.                                              *)
(***************************************************************************)
Abs(i) == IF i < 0 THEN -i ELSE i

RECURSIVE GCD(_, _)
GCD(a, b) == IF b = 0 THEN a ELSE GCD(b, a % b)

Frac(n, d) ==
    LET g == GCD(Abs(n), Abs(d))
        s == IF d < 0 THEN -1 ELSE 1
    IN  <<(s * n) \div g, Abs(d) \div g>>

R(i) == <<i, 1>>
RAdd(a, b) == Frac(a[1] * b[2] + b[1] * a[2], a[2] * b[2])
RNeg(a) == <<-a[1], a[2]>>
RSub(a, b) == RAdd(a, RNeg(b))
RMul(a, b) == Frac(a[1] * b[1], a[2] * b[2])
RDiv(a, b) == Frac(a[1] * b[2], a[2] * b[1])
RAbs(a) == <<Abs(a[1]), a[2]>>
RLt(a, b) == a[1] * b[2] < b[1] * a[2]
RLeq(a, b) == a[1] * b[2] <= b[1] * a[2]

RECURSIVE RSum(_)
RSum(s) == IF s = <<>> THEN R(0) ELSE RAdd(s[1], RSum(Tail(s)))

\* np.mean / the `average` of the sklearn metrics, over a non-empty sequence.
RMean(s) == RDiv(RSum(s), R(Len(s)))

SeqToSet(s) == {s[i] : i \in 1..Len(s)}
SeqMin(s) == CHOOSE x \in SeqToSet(s) : \A y \in SeqToSet(s) : x <= y
SeqMax(s) == CHOOSE x \in SeqToSet(s) : \A y \in SeqToSet(s) : y <= x

\* A quantity p + q/eps, eps the float epsilon that sklearn's MAPE puts in
\* place of a zero |y_true|: every q > 0 outweighs every p of the model.
Ext(p, q) == [fin |-> p, inf |-> q]
ELt(a, b) == RLt(a.inf, b.inf) \/ (a.inf = b.inf /\ RLt(a.fin, b.fin))
ELeq(a, b) == a = b \/ ELt(a, b)

(***************************************************************************)
(* The library functions the pipeline calls, as the libraries compute them.*)
(***************************************************************************)
\* int(len(df) * 0.70): the float product truncates to floor(70 n / 100) for
\* every n < 90 (the first n where it does not), so for every n of the model.
TrainLen(n) == (n * 70) \div 100

\* DataFrame.head(k) in place of tail(k).
PdHead(s, k) ==
    LET n == IF k < Len(s) THEN k ELSE Len(s)
    IN  SubSeq(s, 1, n)

\* DataFrame.tail(k): the last k rows, all of them when there are fewer.
PdTail(s, k) ==
    LET n == IF k < Len(s) THEN k ELSE Len(s)
    IN  SubSeq(s, Len(s) - n + 1, Len(s))

\* sklearn _handle_zeros_in_scale: a zero range is replaced by 1.
HandleZerosInScale(range) == IF range = 0 THEN 1 ELSE range

\* MinMaxScaler(feature_range=(0, 1)).fit: scale_ = (1 - 0) / range,
\* min_ = 0 - data_min * scale_.
ScalerFit(train) ==
    LET lo == SeqMin(train)
        hi == SeqMax(train)
        sc == RDiv(R(1), R(HandleZerosInScale(hi - lo)))
    IN  [data_min |-> lo, data_max |-> hi,
         scale_ |-> sc, min_ |-> RSub(R(0), RMul(R(lo), sc))]

\* MinMaxScaler.transform of one value: X * scale_ + min_.
ScalerTransformOne(sc, x) == RAdd(RMul(R(x), sc.scale_), sc.min_)
ScalerTransform(sc, s) == [i \in 1..Len(s) |-> ScalerTransformOne(sc, s[i])]

\* The loop of lines 148-150 from 0-based index i on: x_test gets
\* input_data[i-100:i], y_test gets input_data[i, 0].
RECURSIVE WindowLoop(_, _, _, _)
WindowLoop(S, i, x, y) ==
    IF i >= Len(S) THEN <<x, y>>
    ELSE WindowLoop(S, i + 1,
                    Append(x, SubSeq(S, i - WINDOW_SIZE + 1, i)),
                    Append(y, S[i + 1]))

\* The loop started one index late: range(101, ...).
BuildWindowsFromNext(S) == WindowLoop(S, WINDOW_SIZE + 1, <<>>, <<>>)

\* for i in range(100, input_data.shape[0]), from empty lists.
BuildWindows(S) == WindowLoop(S, WINDOW_SIZE, <<>>, <<>>)

\* y * scale_factor, element-wise (lines 161, 162).
ScaleBy(s, k) == [i \in 1..Len(s) |-> RMul(s[i], k)]

\* sklearn mean_absolute_percentage_error:
\* mean(|y_pred - y_true| / max(|y_true|, eps)).
MapeTerm(a, p) ==
    IF a[1] = 0 THEN Ext(R(0), RAbs(RSub(p, a)))
    ELSE Ext(RDiv(RAbs(RSub(p, a)), RAbs(a)), R(0))

mean_absolute_percentage_error(y_true, y_pred) ==
    LET t == [i \in 1..Len(y_true) |-> MapeTerm(y_true[i], y_pred[i])]
    IN  Ext(RMean([i \in 1..Len(t) |-> t[i].fin]),
            RMean([i \in 1..Len(t) |-> t[i].inf]))

\* sklearn mean_squared_error: mean((y_true - y_pred)^2).
SqDiff(a, p) == RMul(RSub(a, p), RSub(a, p))

mean_squared_error(y_true, y_pred) ==
    RMean([i \in 1..Len(y_true) |-> SqDiff(y_true[i], y_pred[i])])

\* The largest k in lo..hi with k*k <= n (lo*lo <= n < (hi+1)^2).
RECURSIVE IsqrtIn(_, _, _)
IsqrtIn(n, lo, hi) ==
    IF lo = hi THEN lo
    ELSE LET mid == (lo + hi + 1) \div 2
         IN  IF mid * mid <= n THEN IsqrtIn(n, mid, hi)
             ELSE IsqrtIn(n, lo, mid - 1)

\* math.sqrt of a non-negative rational, kept to two decimal places (the
\* places line 181 shows), truncated.  46340 is the largest root whose
\* square fits a 32-bit integer.
MathSqrt(q) ==
    LET n == (q[1] * 10000) \div q[2]
    IN  Frac(IsqrtIn(n, 0, IF n < 46340 THEN n ELSE 46340), 100)

\* r2_score without the perfect-prediction test of the constant case.
r2_score_constant_is_one(y_true, y_pred) ==
    LET m == RMean(y_true)
        numerator == RSum([i \in 1..Len(y_true) |->
                              SqDiff(y_true[i], y_pred[i])])
        denominator == RSum([i \in 1..Len(y_true) |-> SqDiff(y_true[i], m)])
    IN  IF denominator[1] # 0 THEN RSub(R(1), RDiv(numerator, denominator))
        ELSE R(1)

\* sklearn r2_score (two samples or more): 1 - SSres / SStot; with
\* SStot = 0 the score is 1.0 for a perfect prediction and 0.0 otherwise.
r2_score(y_true, y_pred) ==
    LET m == RMean(y_true)
        numerator == RSum([i \in 1..Len(y_true) |->
                              SqDiff(y_true[i], y_pred[i])])
        denominator == RSum([i \in 1..Len(y_true) |-> SqDiff(y_true[i], m)])
    IN  IF denominator[1] # 0 THEN RSub(R(1), RDiv(numerator, denominator))
        ELSE IF numerator[1] = 0 THEN R(1) ELSE R(0)

\* np.diff: x[i+1] - x[i].
NpDiff(s) == [i \in 1..(Len(s) - 1) |-> RSub(s[i + 1], s[i])]

\* A sign that counts a zero move as a rise.
NpSignTwoValued(a) == IF a[1] < 0 THEN -1 ELSE 1

\* np.sign: -1, 0 or 1.
NpSign(a) == IF a[1] < 0 THEN -1 ELSE IF a[1] = 0 THEN 0 ELSE 1

\* np.mean(direction_test == direction_pred) * 100 (lines 168-170).
DirectionalAccuracy(y_true, y_pred) ==
    LET dt == NpDiff(y_true)
        dp == NpDiff(y_pred)
        direction_test == [i \in 1..Len(dt) |-> NpSign(dt[i])]
        direction_pred == [i \in 1..Len(dp) |-> NpSign(dp[i])]
        agree == [i \in 1..Len(direction_test) |->
                     IF direction_test[i] = direction_pred[i]
                     THEN R(1) ELSE R(0)]
    IN  RMul(RMean(agree), R(100))

\* The accuracy clamped at 0.
AccuracyClamped(mape) ==
    IF ELt(Ext(R(1), R(0)), mape) THEN Ext(R(0), R(0))
    ELSE Ext(RSub(R(100), RMul(mape.fin, R(100))),
             RSub(R(0), RMul(mape.inf, R(100))))

\* accuracy_percentage = 100 - (mape * 100) (line 171).
AccuracyPercentage(mape) ==
    Ext(RSub(R(100), RMul(mape.fin, R(100))),
        RSub(R(0), RMul(mape.inf, R(100))))

(***************************************************************************)
(* State.  Every local of `run` is a function of the run (the thread);     *)
(* figs and gcf are pyplot's process-wide figure registry.  None is the    *)
(* empty sequence, a value v that is present is <<v>> where the value is   *)
(* not a sequence itself.                                                  *)
(***************************************************************************)
VARIABLES
    pc,             \* where each run stands
    chart,          \* the chart a run is drawing: 1..5, in source order
    err,            \* the st.error messages a run has shown, in order
    log,            \* the steps a run has executed, in order (history)
    df,             \* the downloaded closing prices
    data_training, data_testing,
    scaler,         \* <<the fitted MinMaxScaler>>
    input_data,     \* scaler.transform(final_df)
    x_test, y_test,
    y_predicted,
    metrics,        \* <<[mape, rmse, r2, directional_accuracy, accuracy_percentage]>>
    fig,            \* the run's own figure handle (fig, fig2, fig3, fig4)
    out,            \* what st.pyplot has rendered for the run, in order
    figs,           \* pyplot: the contents of every figure, by number
    gcf             \* pyplot: the current figure's number, 0 when none

vars == <<pc, chart, err, log, df, data_training, data_testing, scaler,
          input_data, x_test, y_test, y_predicted, metrics, fig, out,
          figs, gcf>>

data_vars == <<df, data_training, data_testing, scaler, input_data, x_test,
               y_test, y_predicted, metrics>>
plot_vars == <<chart, fig, out, figs, gcf>>

\* Every price series of 1..MaxLen points.
AllSeries == UNION {[1..n -> Prices] : n \in 1..MaxLen}
\* What the network may return for one window: multiples of the scaler's
\* step, so that an output can hit a scaled price exactly or miss it by far.
PredSteps == 1..3

Init ==
    /\ pc = [r \in Runs |-> "idle"]
    /\ chart = [r \in Runs |-> 0]
    /\ err = [r \in Runs |-> <<>>]
    /\ log = [r \in Runs |-> <<>>]
    /\ df = [r \in Runs |-> <<>>]
    /\ data_training = [r \in Runs |-> <<>>]
    /\ data_testing = [r \in Runs |-> <<>>]
    /\ scaler = [r \in Runs |-> <<>>]
    /\ input_data = [r \in Runs |-> <<>>]
    /\ x_test = [r \in Runs |-> <<>>]
    /\ y_test = [r \in Runs |-> <<>>]
    /\ y_predicted = [r \in Runs |-> <<>>]
    /\ metrics = [r \in Runs |-> <<>>]
    /\ fig = [r \in Runs |-> 0]
    /\ out = [r \in Runs |-> <<>>]
    /\ figs = <<>>
    /\ gcf = 0

\* One step of the script: the step is logged and control moves on.
Goto(r, step, next) ==
    /\ pc' = [pc EXCEPT ![r] = next]
    /\ log' = [log EXCEPT ![r] = Append(@, step)]

\* The message without the st.stop() of line 140: a failed model load
\* falls through to line 142.
ErrorNoStop(r, step, msg) ==
    /\ err' = [err EXCEPT ![r] = Append(@, msg)]
    /\ Goto(r, step, IF step = "load_model" THEN "transform" ELSE "stopped")

\* st.error(msg) followed by the end of the run: st.stop() raises
\* StopException, a BaseException that `except Exception` (line 216) lets
\* through, so nothing of the script runs after it.
ErrorStop(r, step, msg) ==
    /\ err' = [err EXCEPT ![r] = Append(@, msg)]
    /\ Goto(r, step, "stopped")

\* GET /app: threading.Thread(target=run).start().
run_streamlit(r) ==
    /\ pc[r] = "idle"
    /\ Goto(r, "run", "connect")
    /\ UNCHANGED <<err, data_vars, plot_vars>>

\* Lines 36-42: the MongoDB client.
Connect(r) ==
    /\ pc[r] = "connect"
    /\ \/ /\ Goto(r, "connect", "load_ticker_data")
          /\ UNCHANGED err
       \/ ErrorStop(r, "connect", "Error connecting to MongoDB")
    /\ UNCHANGED <<data_vars, plot_vars>>

\* Lines 44-55, 69-71: the ticker table, None when empty or on an exception.
load_ticker_data(r) ==
    /\ pc[r] = "load_ticker_data"
    /\ \/ /\ Goto(r, "load_ticker_data", "select")
          /\ UNCHANGED err
       \/ ErrorStop(r, "load_ticker_data", "No ticker data found in the database.")
       \/ ErrorStop(r, "load_ticker_data", "Error loading ticker data")
    /\ UNCHANGED <<data_vars, plot_vars>>

\* Lines 73-95, 218-219: the widgets; an empty ticker ends the script with
\* a message.
Select(r) ==
    /\ pc[r] = "select"
    /\ \/ /\ Goto(r, "select", "load_data")
          /\ UNCHANGED err
       \/ /\ err' = [err EXCEPT ![r] = Append(@, "Please enter a valid company name, ticker symbol and date range.")]
          /\ Goto(r, "select", "done")
    /\ UNCHANGED <<data_vars, plot_vars>>

\* Lines 57-67, 96-98: the download, None when empty or on an exception.
load_data(r, series) ==
    /\ pc[r] = "load_data"
    /\ \/ \E s \in series :
             /\ df' = [df EXCEPT ![r] = s]
             /\ Goto(r, "load_data", "figure")
             /\ chart' = [chart EXCEPT ![r] = 1]
             /\ UNCHANGED err
       \/ /\ ErrorStop(r, "load_data", "No data found. Please check the ticker symbol.")
          /\ UNCHANGED <<df, chart>>
       \/ /\ ErrorStop(r, "load_data", "Error downloading data")
          /\ UNCHANGED <<df, chart>>
    /\ UNCHANGED <<data_training, data_testing, scaler, input_data, x_test,
                   y_test, y_predicted, metrics, fig, out, figs, gcf>>

(***************************************************************************)
(* The five charts, in source order: closing price (104-110), moving       *)
(* averages (114-122), predictions (189-196), residuals (200-206) and the  *)
(* residual histogram (209-214).  Each is plt.figure, then plotting calls  *)
(* on pyplot's current figure, then st.pyplot of the run's own handle.     *)
(***************************************************************************)
ChartLabels(c) ==
    CASE c = 1 -> <<"Closing Price">>
      [] c = 2 -> <<"100MA", "200MA", "Closing Price">>
      [] c = 3 -> <<"Original Price", "Predicted Price">>
      [] c = 4 -> <<"Residual Plot">>
      [] OTHER -> <<"Distribution of Residuals">>

\* What the plotting calls of run r draw for chart c: the run's own data.
ChartPlots(r, c) ==
    [i \in 1..Len(ChartLabels(c)) |-> [run |-> r, label |-> ChartLabels(c)[i]]]

\* fig = plt.figure(figsize=(12, 6)): a new figure, made the current one.
PltFigure(r) ==
    /\ pc[r] = "figure"
    /\ figs' = Append(figs, <<>>)
    /\ gcf' = Len(figs) + 1
    /\ fig' = [fig EXCEPT ![r] = Len(figs) + 1]
    /\ Goto(r, "figure", "plot")
    /\ UNCHANGED <<err, data_vars, chart, out>>

\* plt.plot / scatter / hist, labels, title, legend: all on gcf.
PltPlot(r) ==
    /\ pc[r] = "plot"
    /\ figs' = [figs EXCEPT ![gcf] = @ \o ChartPlots(r, chart[r])]
    /\ Goto(r, "plot", "pyplot")
    /\ UNCHANGED <<err, data_vars, chart, fig, out, gcf>>

\* st.pyplot(fig): renders the figure the run's handle names.
StPyplot(r) ==
    /\ pc[r] = "pyplot"
    /\ out' = [out EXCEPT ![r] = Append(@, [chart |-> chart[r],
                                             plots |-> figs[fig[r]]])]
    /\ \/ /\ chart[r] = 2
          /\ Goto(r, "pyplot", "split")
          /\ UNCHANGED chart
       \/ /\ chart[r] = 5
          /\ Goto(r, "pyplot", "done")
          /\ UNCHANGED chart
       \/ /\ chart[r] \notin {2, 5}
          /\ Goto(r, "pyplot", "figure")
          /\ chart' = [chart EXCEPT ![r] = @ + 1]
    /\ UNCHANGED <<err, data_vars, fig, figs, gcf>>

(***************************************************************************)
(* Lines 124-186: split, scaler, model, windows, prediction, metrics.      *)
(***************************************************************************)
\* df['Close'][0:int(len(df) * 0.70)] and the rest.
TrainPart(s) == SubSeq(s, 1, TrainLen(Len(s)))
TestPart(s) == SubSeq(s, TrainLen(Len(s)) + 1, Len(s))

\* The guard with <= in place of <.
InsufficientGuardOffByOne(test) == Len(test) <= WINDOW_SIZE

\* Line 129: len(data_testing) < 100.
InsufficientData(test) == Len(test) < WINDOW_SIZE

\* Lines 124-131: the partitions and the guard on the test partition.
Split(r) ==
    /\ pc[r] = "split"
    /\ data_training' = [data_training EXCEPT ![r] = TrainPart(df[r])]
    /\ data_testing' = [data_testing EXCEPT ![r] = TestPart(df[r])]
    /\ IF InsufficientData(TestPart(df[r]))
       THEN ErrorStop(r, "split", "Insufficient data points available. Please select a larger date range.")
       ELSE /\ Goto(r, "split", "fit")
            /\ UNCHANGED err
    /\ UNCHANGED <<df, scaler, input_data, x_test, y_test, y_predicted,
                   metrics, plot_vars>>

\* Lines 133-134: scaler.fit_transform(data_training).
Fit(r) ==
    /\ pc[r] = "fit"
    /\ scaler' = [scaler EXCEPT ![r] = <<ScalerFit(data_training[r])>>]
    /\ Goto(r, "fit", "load_model")
    /\ UNCHANGED <<err, df, data_training, data_testing, input_data, x_test,
                   y_test, y_predicted, metrics, plot_vars>>

\* Lines 136-140: load_model('my_model.keras').
LoadModel(r) ==
    /\ pc[r] = "load_model"
    /\ \/ /\ Goto(r, "load_model", "transform")
          /\ UNCHANGED err
       \/ ErrorStop(r, "load_model", "Error loading model")
    /\ UNCHANGED <<data_vars, plot_vars>>

\* Lines 142-144: the last 100 training points, then the test partition,
\* through the scaler.
FinalDf(train, test) == PdTail(train, WINDOW_SIZE) \o test

Transform(r) ==
    /\ pc[r] = "transform"
    /\ input_data' = [input_data EXCEPT ![r] =
           ScalerTransform(scaler[r][1],
                           FinalDf(data_training[r], data_testing[r]))]
    /\ Goto(r, "transform", "window")
    /\ UNCHANGED <<err, df, data_training, data_testing, scaler, x_test,
                   y_test, y_predicted, metrics, plot_vars>>

\* Lines 146-151: the windowing loop.
Window(r) ==
    /\ pc[r] = "window"
    /\ x_test' = [x_test EXCEPT ![r] = BuildWindows(input_data[r])[1]]
    /\ y_test' = [y_test EXCEPT ![r] = BuildWindows(input_data[r])[2]]
    /\ Goto(r, "window", "predict")
    /\ UNCHANGED <<err, df, data_training, data_testing, scaler, input_data,
                   y_predicted, metrics, plot_vars>>

\* Lines 153-158: model.predict(x_test), one output per window, each
\* `outputs` steps of the scaler.
Predict(r, outputs) ==
    /\ pc[r] = "predict"
    /\ \/ \E y \in [1..Len(x_test[r]) ->
                        {RMul(R(q), scaler[r][1].scale_) : q \in outputs}] :
             /\ y_predicted' = [y_predicted EXCEPT ![r] = y]
             /\ Goto(r, "predict", "evaluate")
             /\ UNCHANGED err
       \/ /\ ErrorStop(r, "predict", "Error making predictions")
          /\ UNCHANGED y_predicted
    /\ UNCHANGED <<df, data_training, data_testing, scaler, input_data,
                   x_test, y_test, metrics, plot_vars>>

\* Line 160: scale_factor = 1 / scaler.scale_[0].
ScaleFactor(sc) == RDiv(R(1), sc.scale_)

\* Lines 161-162: predictions and targets "back in price units".
Denormalize(sc, y) == ScaleBy(y, ScaleFactor(sc))

\* Lines 164-171.
ComputeMetrics(actual, predicted) ==
    LET mape == mean_absolute_percentage_error(actual, predicted)
    IN  [mape |-> mape,
         rmse |-> MathSqrt(mean_squared_error(actual, predicted)),
         r2 |-> r2_score(actual, predicted),
         directional_accuracy |-> DirectionalAccuracy(actual, predicted),
         accuracy_percentage |-> AccuracyPercentage(mape)]

\* Lines 160-186: de-normalization, the metrics and their display.
Evaluate(r) ==
    /\ pc[r] = "evaluate"
    /\ y_predicted' = [y_predicted EXCEPT ![r] = Denormalize(scaler[r][1], @)]
    /\ y_test' = [y_test EXCEPT ![r] = Denormalize(scaler[r][1], @)]
    /\ metrics' = [metrics EXCEPT ![r] =
           <<ComputeMetrics(Denormalize(scaler[r][1], y_test[r]),
                            Denormalize(scaler[r][1], y_predicted[r]))>>]
    /\ Goto(r, "evaluate", "figure")
    /\ chart' = [chart EXCEPT ![r] = 3]
    /\ UNCHANGED <<err, df, data_training, data_testing, scaler, input_data,
                   x_test, fig, out, figs, gcf>>

\* One step of run r, for a download out of `series` and a network whose
\* outputs are `outputs` steps of the scaler.
Step(r, series, outputs) ==
    \/ run_streamlit(r)
    \/ Connect(r)
    \/ load_ticker_data(r)
    \/ Select(r)
    \/ load_data(r, series)
    \/ PltFigure(r)
    \/ PltPlot(r)
    \/ StPyplot(r)
    \/ Split(r)
    \/ Fit(r)
    \/ LoadModel(r)
    \/ Transform(r)
    \/ Window(r)
    \/ Predict(r, outputs)
    \/ Evaluate(r)

\* One request: every series, every output.
Next == \E r \in {1} : Step(r, AllSeries, PredSteps)

Spec == Init /\ [][Next]_vars

(***************************************************************************)
(* Several requests at once: every GET /app starts a thread of its own,    *)
(* and the threads' steps interleave freely.                               *)
(***************************************************************************)
\* Downloads of the concurrent specification: one too short, one long enough.
ConcSeries == {<<2>>, <<1, 3, 2, 3>>}
ConcOutputs == {1}

NextConc == \E r \in Runs : Step(r, ConcSeries, ConcOutputs)

SpecConc == Init /\ [][NextConc]_vars

(***************************************************************************)
(* The windowing loop on its own: the run stands before line 146 with an   *)
(* arbitrary scaled sequence of 0..WINDOW_SIZE+2 values.                   *)
(***************************************************************************)
ScaledValues == {Frac(q, 2) : q \in 0..2}
WindowInputs == UNION {[1..n -> ScaledValues] : n \in 0..(WINDOW_SIZE + 2)}

InitWindow ==
    /\ pc = [r \in Runs |-> IF r = 1 THEN "window" ELSE "idle"]
    /\ chart = [r \in Runs |-> 0]
    /\ err = [r \in Runs |-> <<>>]
    /\ log = [r \in Runs |-> <<>>]
    /\ df = [r \in Runs |-> <<>>]
    /\ data_training = [r \in Runs |-> <<>>]
    /\ data_testing = [r \in Runs |-> <<>>]
    /\ scaler = [r \in Runs |-> <<>>]
    /\ \E S \in WindowInputs : input_data = [r \in Runs |-> IF r = 1 THEN S ELSE <<>>]
    /\ x_test = [r \in Runs |-> <<>>]
    /\ y_test = [r \in Runs |-> <<>>]
    /\ y_predicted = [r \in Runs |-> <<>>]
    /\ metrics = [r \in Runs |-> <<>>]
    /\ fig = [r \in Runs |-> 0]
    /\ out = [r \in Runs |-> <<>>]
    /\ figs = <<>>
    /\ gcf = 0

NextWindow == \E r \in {1} : Window(r)

SpecWindow == InitWindow /\ [][NextWindow]_vars

(***************************************************************************)
(* Properties.                                                             *)
(***************************************************************************)
InLog(r, step) == \E i \in 1..Len(log[r]) : log[r][i] = step
Evaluated(r) == metrics[r] # <<>>
Insufficient == "Insufficient data points available. Please select a larger date range."
Max0(i) == IF i < 0 THEN 0 ELSE i

\* C1: for a source sequence S of length L the windowing loop emits exactly
\* max(L - W, 0) pairs, in order, pair k (0-based) being the window
\* S[k .. k+W-1] with the target S[k+W]; nothing when L <= W.
C1_Windows ==
    \A r \in Runs : pc[r] = "predict" =>
        LET S == input_data[r]
            n == Max0(Len(S) - WINDOW_SIZE)
        IN  /\ Len(x_test[r]) = n
            /\ Len(y_test[r]) = n
            /\ \A k \in 0..(n - 1) :
                  /\ Len(x_test[r][k + 1]) = WINDOW_SIZE
                  /\ \A j \in 1..WINDOW_SIZE : x_test[r][k + 1][j] = S[k + j]
                  /\ y_test[r][k + 1] = S[k + WINDOW_SIZE + 1]

C1_Witness ==
    \E r \in Runs :
        /\ pc[r] = "predict"
        /\ Len(input_data[r]) = WINDOW_SIZE + 2
        /\ Len(x_test[r]) = 2
        /\ x_test[r][1] # x_test[r][2]

\* C2 (as claimed): once the metrics are computed with a scaler fitted on
\* min < max, the "actual" sequence handed to them is the test partition's
\* closing prices.
C2_ActualIsTestPrices ==
    \A r \in Runs :
        (Evaluated(r) /\ scaler[r][1].data_min < scaler[r][1].data_max) =>
            /\ Len(y_test[r]) = Len(data_testing[r])
            /\ \A k \in 1..Len(y_test[r]) : y_test[r][k] = R(data_testing[r][k])

\* C3 (as claimed): a test partition of fewer than WINDOW_SIZE + 1 points
\* ends the request in the insufficient-data error, before the scaler.
C3_GuardAtWindowPlusOne ==
    \A r \in Runs :
        (InLog(r, "split") /\ Len(data_testing[r]) < WINDOW_SIZE + 1) =>
            /\ pc[r] = "stopped"
            /\ err[r] = <<Insufficient>>
            /\ ~InLog(r, "fit")

\* C3 (amended): a test partition of fewer than WINDOW_SIZE points ends the
\* request in the insufficient-data error and the request never reaches the
\* scaler, the model, the prediction or the metrics; a test partition of
\* WINDOW_SIZE points or more never shows that error.
C3_GuardAtWindow ==
    \A r \in Runs : InLog(r, "split") =>
        /\ Len(data_testing[r]) < WINDOW_SIZE =>
              /\ pc[r] = "stopped"
              /\ err[r] = <<Insufficient>>
              /\ log[r][Len(log[r])] = "split"
              /\ scaler[r] = <<>> /\ input_data[r] = <<>>
              /\ y_predicted[r] = <<>> /\ metrics[r] = <<>>
        /\ Len(data_testing[r]) >= WINDOW_SIZE =>
              \A i \in 1..Len(err[r]) : err[r][i] # Insufficient

C3_Witness ==
    \E r \in Runs :
        /\ InLog(r, "split")
        /\ Len(data_testing[r]) = WINDOW_SIZE - 1
        /\ pc[r] = "stopped"
        /\ Len(out[r]) = 2

\* C4: once a run has shown an error, it executes no further step: its
\* position, its metrics and its rendered charts stay as they are; and a
\* run that has shown an error has no metrics and no result chart.
C4_NothingAfterError ==
    /\ [](\A r \in Runs : err[r] # <<>> =>
            /\ metrics[r] = <<>>
            /\ \A i \in 1..Len(out[r]) : out[r][i].chart \in {1, 2})
    /\ [][\A r \in Runs : err[r] # <<>> =>
            /\ pc'[r] = pc[r] /\ log'[r] = log[r]
            /\ metrics'[r] = metrics[r] /\ out'[r] = out[r]
            /\ y_predicted'[r] = y_predicted[r]]_vars

C4_Witness ==
    \E r \in Runs :
        /\ err[r] = <<"Error making predictions">>
        /\ pc[r] = "stopped"
        /\ x_test[r] # <<>>
        /\ Len(out[r]) = 2

\* C5 (as claimed): a constant training partition makes the fit signal an
\* error, and the run goes no further.
C5_DegenerateRangeSignalled ==
    \A r \in Runs :
        (InLog(r, "fit") /\ SeqMin(data_training[r]) = SeqMax(data_training[r])) =>
            /\ err[r] # <<>>
            /\ pc[r] = "stopped"
            /\ input_data[r] = <<>> /\ y_predicted[r] = <<>> /\ metrics[r] = <<>>

\* The three-valued sign of b - a, by comparison.
Sgn(a, b) == IF RLt(a, b) THEN 1 ELSE IF RLt(b, a) THEN -1 ELSE 0
\* The steps i in 2..n at which both sequences move the same way.
Agreeing(a, p) ==
    {i \in 2..Len(a) : Sgn(a[i - 1], a[i]) = Sgn(p[i - 1], p[i])}

AllPositive(a) == \A i \in 1..Len(a) : a[i][1] > 0

\* C7: for strictly positive actual values, MAPE >= 0, RMSE >= 0 and
\* R-squared <= 1, with R-squared = 1 exactly when every prediction equals
\* its actual value.
C7_MetricRanges ==
    \A r \in Runs : (Evaluated(r) /\ AllPositive(y_test[r])) =>
        LET m == metrics[r][1]
        IN  /\ ELeq(Ext(R(0), R(0)), m.mape)
            /\ RLeq(R(0), m.rmse)
            /\ RLeq(m.r2, R(1))
            /\ m.r2 = R(1) <=> y_predicted[r] = y_test[r]

C7_Witness ==
    \E r \in Runs :
        /\ Evaluated(r) /\ AllPositive(y_test[r])
        /\ y_test[r][1] # y_test[r][2]
        /\ y_predicted[r] = y_test[r]
        /\ metrics[r][1].r2 = R(1)

\* C8: OverallAccuracy is 100 - 100 * MAPE, unclamped: never above 100,
\* and negative whenever MAPE > 1.
C8_OverallAccuracy ==
    \A r \in Runs : Evaluated(r) =>
        LET m == metrics[r][1]
            hundredMape == Ext(RMul(R(100), m.mape.fin), RMul(R(100), m.mape.inf))
        IN  /\ RAdd(m.accuracy_percentage.fin, hundredMape.fin) = R(100)
            /\ RAdd(m.accuracy_percentage.inf, hundredMape.inf) = R(0)
            /\ ELeq(m.accuracy_percentage, Ext(R(100), R(0)))
            /\ ELt(Ext(R(1), R(0)), m.mape) =>
                  ELt(m.accuracy_percentage, Ext(R(0), R(0)))

C8_Witness ==
    \E r \in Runs :
        /\ Evaluated(r) /\ AllPositive(y_test[r])
        /\ ELt(Ext(R(1), R(0)), metrics[r][1].mape)
        /\ ELt(metrics[r][1].accuracy_percentage, Ext(R(0), R(0)))

\* C9 (as claimed): whatever the interleaving, every figure a run renders
\* holds exactly that run's own plots of that chart.
C9_RunsDoNotInterfere ==
    \A r \in Runs : \A i \in 1..Len(out[r]) :
        out[r][i].plots = ChartPlots(r, out[r][i].chart)

\* (x - lo) / (hi - lo), the range of a constant partition counting as 1.
Normalized(lo, hi, x) == Frac(x - lo, IF hi = lo THEN 1 ELSE hi - lo)

\* C10: train and test partition the series at floor(0.70 n); when the
\* guard passes the train partition has at least WINDOW_SIZE points, the
\* windowing source is the last WINDOW_SIZE training points followed by
\* the test partition (scaled), there are as many windows and predictions
\* as test points, the k-th target is the scaled k-th test point, and the
\* first window holds training points only.
C10_Partition ==
    \A r \in Runs :
        /\ InLog(r, "split") =>
              LET n == Len(df[r])
                  t == Len(data_training[r])
              IN  /\ data_training[r] \o data_testing[r] = df[r]
                  /\ 10 * t <= 7 * n /\ 7 * n < 10 * (t + 1)
                  /\ Len(data_testing[r]) >= WINDOW_SIZE => t >= WINDOW_SIZE
        /\ InLog(r, "window") =>
              LET tr == data_training[r]
                  te == data_testing[r]
                  lo == SeqMin(tr)
                  hi == SeqMax(tr)
                  last == [j \in 1..WINDOW_SIZE |->
                              Normalized(lo, hi, tr[Len(tr) - WINDOW_SIZE + j])]
                  scaled == [k \in 1..Len(te) |-> Normalized(lo, hi, te[k])]
              IN  /\ input_data[r] = last \o scaled
                  /\ Len(x_test[r]) = Len(te)
                  /\ Len(y_test[r]) = Len(te)
                  /\ x_test[r][1] = last
                  /\ pc[r] \in {"predict", "evaluate"} => y_test[r] = scaled
                  /\ InLog(r, "predict") /\ pc[r] # "stopped" =>
                        Len(y_predicted[r]) = Len(te)

C10_Witness ==
    \E r \in Runs :
        /\ pc[r] = "evaluate"
        /\ Len(data_training[r]) > WINDOW_SIZE
        /\ data_training[r][1] # data_training[r][Len(data_training[r])]
        /\ SeqMin(data_training[r]) + 1 < SeqMax(data_training[r])
        /\ Len(y_predicted[r]) = Len(data_testing[r])

====
